---- MODULE Spec2Model ----
(***************************************************************************)
(* Model of valence.py and prompts.py: the dataset grouper, the prompt     *)
(* builder, the rater (one chat-completion round trip, parsed and clamped) *)
(* the batch rater and the command line entry point.                       *)
(*                                                                         *)
(* Python values are represented as follows.                               *)
(*   str            a sequence of one-character strings                    *)
(*   Optional[x]    <<>> for None / unset, <<x>> for a present value       *)
(*   dict           a sequence of items in insertion order                 *)
(***************************************************************************)
EXTENDS Integers, Sequences, FiniteSets, TLC

VARIABLES entry, OpenAI, env, runtime, lang, file,
          entries, organized, pc, results, idx, text, client, prompts,
          outstanding, response, content, rating, predicted, error,
          returned, printed, clientsCreated, requests, rated

inputs == <<entry, OpenAI, env, runtime, lang, file>>
frame  == <<text, client, prompts, response, content, rating, predicted>>
batch  == <<entries, organized, results, idx, returned, printed, rated>>
vars   == <<entry, OpenAI, env, runtime, lang, file,
            entries, organized, pc, results, idx, text, client, prompts,
            outstanding, response, content, rating, predicted, error,
            returned, printed, clientsCreated, requests, rated>>

(***************************************************************************)
(* Bounds                                                                  *)
(***************************************************************************)
MaxEntries == 3
MaxGroupEntries == 3
MaxContentLen == 6
MaxTextLen == 2

None == <<>>
Some(x) == <<x>>

(***************************************************************************)
(* Strings                                                                 *)
(***************************************************************************)
Digits == {"0", "5"}
Alphabet == {"[", "]", "x"} \cup Digits
Strings(n) == UNION {[1..k -> Alphabet] : k \in 0..n}

DigitVal(c) == IF c = "5" THEN 5 ELSE 0

\* int(s) for a string of decimal digits
RECURSIVE int(_)
int(s) == IF Len(s) = 0 THEN 0
          ELSE 10 * int(SubSeq(s, 1, Len(s) - 1)) + DigitVal(s[Len(s)])

\* truthiness of an environment string
Truthy(s) == s # ""

\* os.getenv(name, default)
getenv_default(e, name, default) == IF e[name] = None THEN default ELSE e[name][1]
\* "if os.getenv(name)": set and not empty
EnvTruthy(e, name) == e[name] # None /\ Truthy(e[name][1])

(***************************************************************************)
(* prompts.py                                                              *)
(***************************************************************************)
NlSystem == "Je bent een expert in de Nederlandse taal ..."
NlUserHead == "Deelnemers reageerden op: ... Lees de reactie van de deelnemer zorgvuldig: "
NlUserTail == "Jouw taak is ... Uitvoerformaat: [getal]"
EnSystem == "You are a Dutch language expert ..."
EnUserHead == "Participants responded to: ... Carefully read the response of the participant: "
EnUserTail == "Your task is ... Output Format: [number]"

\* the f-string is the template head, the text verbatim, the template tail
build_prompts_fr(t, l) ==
    IF l = "nl" THEN <<NlSystem, <<NlUserHead, t, NlUserTail>>>>
    ELSE IF l = "en" THEN <<EnSystem, <<EnUserHead, t, EnUserTail>>>>
    ELSE <<EnSystem, <<EnUserHead, t, NlUserTail>>>>

build_prompts(t, l) ==
    IF l = "nl" THEN <<NlSystem, <<NlUserHead, t, NlUserTail>>>>
    ELSE <<EnSystem, <<EnUserHead, t, EnUserTail>>>>

(***************************************************************************)
(* organize_sentiments_by_score                                            *)
(***************************************************************************)
DictKeys(d) == {d[i].score : i \in 1..Len(d)}

\* d.setdefault(k, v): an existing key keeps its value
DictSetDefault(d, item) ==
    IF item.score \in DictKeys(d) THEN d ELSE Append(d, item)

\* d[k] = v: an existing key keeps its position and takes the new value,
\* a new key goes to the end
DictSet(d, item) ==
    IF item.score \in DictKeys(d)
    THEN [i \in 1..Len(d) |-> IF d[i].score = item.score THEN item ELSE d[i]]
    ELSE Append(d, item)

RECURSIVE organize_sentiments_by_score(_)
organize_sentiments_by_score(es) ==
    IF Len(es) = 0 THEN <<>>
    ELSE LET e == es[Len(es)]
         IN DictSet(organize_sentiments_by_score(SubSeq(es, 1, Len(es) - 1)),
                    [score |-> e.sentiment, heading |-> e.heading, text |-> e.text])

(***************************************************************************)
(* rate_sentiment_with_openai_api: pure parts                              *)
(***************************************************************************)
NoError == [type |-> "none", msg |-> "none"]
SdkMissing == [type |-> "RuntimeError", msg |-> "OpenAI SDK is not available"]
KeyMissing == [type |-> "RuntimeError", msg |-> "OPENAI_API_KEY is not set for cloud runtime"]
ParseFailed == [type |-> "ValueError", msg |-> "Could not parse rating from model output"]
NetworkFailed == [type |-> "APIConnectionError", msg |-> "completion request failed"]

\* lines 72-81 with the key check of line 73 left out
ConfigureNoKeyCheck(e, rt) ==
    IF rt = "cloud"
    THEN [ok |-> TRUE, error |-> NoError,
          client |-> [api_key |-> getenv_default(e, "OPENAI_API_KEY", ""),
                      base_url |-> None]]
    ELSE [ok |-> TRUE, error |-> NoError,
          client |-> [api_key |-> getenv_default(e, "OPENAI_API_KEY",
                                    getenv_default(e, "LOCAL_OPENAI_API_KEY", "sk-local")),
                      base_url |-> Some(getenv_default(e, "LOCAL_OPENAI_BASE_URL",
                                                       "http://localhost:8000/v1"))]]

\* lines 72-81: the connection parameters for the runtime, or the error raised.
\* base_url None is "not passed" (the client's own default address).
Configure(e, rt) ==
    IF rt = "cloud"
    THEN IF ~EnvTruthy(e, "OPENAI_API_KEY")
         THEN [ok |-> FALSE, error |-> KeyMissing,
               client |-> [api_key |-> "", base_url |-> None]]
         ELSE [ok |-> TRUE, error |-> NoError,
               client |-> [api_key |-> e["OPENAI_API_KEY"][1],
                           base_url |-> IF EnvTruthy(e, "OPENAI_BASE_URL")
                                        THEN e["OPENAI_BASE_URL"] ELSE None]]
    ELSE [ok |-> TRUE, error |-> NoError,
          client |-> [api_key |-> getenv_default(e, "OPENAI_API_KEY",
                                    getenv_default(e, "LOCAL_OPENAI_API_KEY", "sk-local")),
                      base_url |-> Some(getenv_default(e, "LOCAL_OPENAI_BASE_URL",
                                                       "http://localhost:8000/v1"))]]

\* line 93: the first choice's message content, "" when there are no choices
ExtractContent(resp) ==
    IF Len(resp.choices) > 0 THEN resp.choices[1] ELSE Some(<<>>)

\* line 96: "content or ''"
OrEmpty(c) == IF c = None \/ Len(c[1]) = 0 THEN <<>> ELSE c[1]

\* \[(\d+)\] matched at position i, closing bracket at j
MatchAt(s, i, j) ==
    /\ i >= 1 /\ j <= Len(s) /\ j > i + 1
    /\ s[i] = "[" /\ s[j] = "]"
    /\ \A k \in (i + 1)..(j - 1) : s[k] \in Digits

Matches(s) == {m \in (1..Len(s)) \X (1..Len(s)) : MatchAt(s, m[1], m[2])}

\* the rightmost match instead of the leftmost
re_search_last(s) ==
    IF Matches(s) = {} THEN None
    ELSE LET m == CHOOSE x \in Matches(s) : \A y \in Matches(s) : y[1] <= x[1]
         IN Some(SubSeq(s, m[1] + 1, m[2] - 1))

\* re.search(r"\[(\d+)\]", s): None, or group(1) of the leftmost match
re_search(s) ==
    IF Matches(s) = {} THEN None
    ELSE LET m == CHOOSE x \in Matches(s) : \A y \in Matches(s) : x[1] <= y[1]
         IN Some(SubSeq(s, m[1] + 1, m[2] - 1))

\* the upper test of line 103 left out
ClampNoUpper(n) == IF n < 1 THEN 1 ELSE n

\* lines 101-105
Clamp(n) == IF n < 1 THEN 1 ELSE IF n > 7 THEN 7 ELSE n

\* a missing match rated as the lowest score instead of raising
ParseOutcomeDefault(c) ==
    LET match == re_search(OrEmpty(c))
    IN IF match = None
       THEN [ok |-> TRUE, rating |-> 0, predicted |-> 1]
       ELSE [ok |-> TRUE, rating |-> int(match[1]), predicted |-> Clamp(int(match[1]))]

\* lines 96-105 on the content of line 93
ParseOutcome(c) ==
    LET match == re_search(OrEmpty(c))
    IN IF match = None
       THEN [ok |-> FALSE, rating |-> 0, predicted |-> 0]
       ELSE [ok |-> TRUE, rating |-> int(match[1]), predicted |-> Clamp(int(match[1]))]

(***************************************************************************)
(* Inputs                                                                  *)
(***************************************************************************)
Scores == {1, 7}
HeadingOf(sc) == IF sc = 7 THEN "Very positive" ELSE "Very negative"
Texts == {"A", "B"}

\* the records of a dataset file: the heading is the label of the score
Entries == {[sentiment |-> sc, heading |-> HeadingOf(sc), text |-> t] :
              sc \in Scores, t \in Texts}
Datasets == UNION {[1..k -> Entries] : k \in 0..MaxEntries}

EnvNames == {"OPENAI_API_KEY", "OPENAI_BASE_URL",
             "LOCAL_OPENAI_BASE_URL", "LOCAL_OPENAI_API_KEY"}
Envs == {[OPENAI_API_KEY |-> a, OPENAI_BASE_URL |-> b,
          LOCAL_OPENAI_BASE_URL |-> c, LOCAL_OPENAI_API_KEY |-> d] :
            a \in {None, Some(""), Some("sk-cloud")},
            b \in {None, Some("http://proxy/v1")},
            c \in {None, Some("http://gpu:9000/v1")},
            d \in {None, Some("sk-mine")}}
\* only OPENAI_API_KEY varies
KeyEnvs == {e \in Envs : \A n \in EnvNames \ {"OPENAI_API_KEY"} : e[n] = None}

SDK == Some("openai.OpenAI")

Reply(s) == [failed |-> FALSE, choices |-> <<Some(s)>>]
NoChoices == [failed |-> FALSE, choices |-> <<>>]
NoContent == [failed |-> FALSE, choices |-> <<None>>]
ConnectionFailure == [failed |-> TRUE, choices |-> <<>>]

\* what the completion endpoint may answer in a batch run
BatchReplies ==
    {ConnectionFailure, NoChoices, NoContent,
     Reply(<<"[", "5", "]">>), Reply(<<"[", "0", "]">>), Reply(<<"[", "5", "0", "]">>),
     Reply(<<"x">>),
     [failed |-> FALSE, choices |-> <<Some(<<"[", "0", "]">>), Some(<<"[", "5", "]">>)>>]}

\* what it may answer to a single rater call
RaterReplies ==
    {ConnectionFailure, NoChoices, NoContent} \cup {Reply(s) : s \in Strings(MaxContentLen)}

(***************************************************************************)
(* Raising: nothing in valence.py catches, the error reaches the process   *)
(* boundary and no frame resumes.                                          *)
(***************************************************************************)
\* the failed entry skipped as if wrapped in "try: ... except: continue"
RaiseSwallowed(e) ==
    /\ error' = e
    /\ pc' = IF entry = "rate_sentiment_with_openai_api" THEN "raised" ELSE "loop"

Raise(e) ==
    /\ error' = e
    /\ pc' = "raised"

(***************************************************************************)
(* rate_sentiment_with_openai_api: steps                                   *)
(***************************************************************************)
\* a client made only when the batch has none yet
NewClientsShared(n) == IF n = 0 THEN 1 ELSE n

\* OpenAI(...) of lines 76 and 81 constructs a client on every call
NewClients(n) == n + 1

\* lines 69-81
rate_configure ==
    /\ pc = "rate_configure"
    /\ IF OpenAI = None
       THEN /\ Raise(SdkMissing)
            /\ UNCHANGED <<client, clientsCreated>>
       ELSE LET c == Configure(env, runtime)
            IN IF c.ok
               THEN /\ client' = Some(c.client)
                    /\ clientsCreated' = NewClients(clientsCreated)
                    /\ pc' = "rate_build_prompts"
                    /\ UNCHANGED error
               ELSE /\ Raise(c.error)
                    /\ UNCHANGED <<client, clientsCreated>>
    /\ UNCHANGED <<inputs, batch, text, prompts, response, content, rating,
                   predicted, outstanding, requests>>

\* line 83
rate_build_prompts ==
    /\ pc = "rate_build_prompts"
    /\ prompts' = Some(build_prompts(text, lang))
    /\ pc' = "rate_send"
    /\ UNCHANGED <<inputs, batch, text, client, response, content, rating,
                   predicted, outstanding, requests, error, clientsCreated>>

\* lines 85-92: the request leaves, the call blocks
rate_send ==
    /\ pc = "rate_send"
    /\ outstanding' = outstanding + 1
    /\ requests' = requests + 1
    /\ pc' = "rate_receive"
    /\ UNCHANGED <<inputs, batch, frame, error, clientsCreated>>

\* lines 85-93: the round trip ends with a response or with the client's error
rate_receive(Replies) ==
    /\ pc = "rate_receive"
    /\ outstanding' = outstanding - 1
    /\ \E r \in Replies :
         IF r.failed
         THEN /\ Raise(NetworkFailed)
              /\ UNCHANGED <<response, content>>
         ELSE /\ response' = Some(r)
              /\ content' = ExtractContent(r)
              /\ pc' = "rate_parse"
              /\ UNCHANGED error
    /\ UNCHANGED <<inputs, batch, text, client, prompts, rating, predicted,
                   requests, clientsCreated>>

\* the call log: the value the last call of the rater returned to its caller
Returned(log, v) ==
    IF Len(log) = 0 THEN log
    ELSE [log EXCEPT ![Len(log)] = [@ EXCEPT !.predicted = v]]

\* lines 96-105
rate_parse ==
    /\ pc = "rate_parse"
    /\ LET o == ParseOutcome(content)
       IN IF o.ok
          THEN /\ rating' = o.rating
               /\ predicted' = o.predicted
               /\ pc' = IF entry = "rate_sentiment_with_openai_api"
                        THEN "done" ELSE "store"
               /\ rated' = Returned(rated, o.predicted)
               /\ UNCHANGED error
          ELSE /\ Raise(ParseFailed)
               /\ UNCHANGED <<rating, predicted, rated>>
    /\ UNCHANGED <<inputs, entries, organized, results, idx, returned, printed,
                   text, client, prompts, response, content,
                   outstanding, requests, clientsCreated>>

(***************************************************************************)
(* rate_all_texts                                                          *)
(***************************************************************************)
\* line 117
rate_all_texts_begin ==
    /\ pc = "rate_all_texts"
    /\ results' = <<>>
    /\ idx' = 0
    /\ pc' = "loop"
    /\ UNCHANGED <<inputs, entries, organized, returned, printed, rated, frame,
                   outstanding, error, clientsCreated, requests>>

\* the result stored under the key of the entry after the one rated
StoreKeyNext(d, i) == d[IF i < Len(d) THEN i + 1 ELSE 1].score

\* the key of the iteration variable "score" of line 118
StoreKey(d, i) == d[i].score

\* lines 118-121: the next item of organized.items() and the call of the rater,
\* or the loop's end and line 123
loop ==
    /\ pc = "loop"
    /\ IF idx < Len(organized)
       THEN /\ idx' = idx + 1
            /\ text' = organized[idx + 1].text
            /\ rated' = Append(rated, [score |-> organized[idx + 1].score,
                                        text |-> organized[idx + 1].text,
                                        predicted |-> 0])
            /\ client' = None /\ prompts' = None /\ response' = None
            /\ content' = None /\ rating' = 0 /\ predicted' = 0
            /\ pc' = "rate_configure"
            /\ UNCHANGED returned
       ELSE /\ returned' = Some(results)
            /\ pc' = IF entry = "main" THEN "main_print" ELSE "done"
            /\ UNCHANGED <<idx, rated, frame>>
    /\ UNCHANGED <<inputs, entries, organized, results, printed, outstanding,
                   error, clientsCreated, requests>>

\* line 122
store ==
    /\ pc = "store"
    /\ results' = DictSet(results, [score |-> StoreKey(organized, idx),
                                    predicted |-> predicted])
    /\ pc' = "loop"
    /\ UNCHANGED <<inputs, entries, organized, idx, returned, printed, rated,
                   frame, outstanding, error, clientsCreated, requests>>

(***************************************************************************)
(* main                                                                    *)
(***************************************************************************)
FileMissing == [type |-> "FileNotFoundError", msg |-> "No such file or directory"]

\* lines 145-150: json.load of the dataset, then the grouper
main_organize ==
    /\ pc = "main"
    /\ IF file = None
       THEN /\ Raise(FileMissing)
            /\ UNCHANGED <<entries, organized>>
       ELSE /\ entries' = file[1]
            /\ organized' = organize_sentiments_by_score(file[1])
            /\ pc' = "main_guard"
            /\ UNCHANGED error
    /\ UNCHANGED <<inputs, results, idx, returned, printed, rated, frame,
                   outstanding, clientsCreated, requests>>

\* the condition without "OpenAI is not None"
GuardNoSdk(sdk, e, rt) == EnvTruthy(e, "OPENAI_API_KEY") \/ rt = "local"

\* the condition of line 155
Guard(sdk, e, rt) ==
    sdk # None /\ (EnvTruthy(e, "OPENAI_API_KEY") \/ rt = "local")

\* line 155
main_guard ==
    /\ pc = "main_guard"
    /\ pc' = IF Guard(OpenAI, env, runtime) THEN "rate_all_texts" ELSE "done"
    /\ UNCHANGED <<inputs, batch, frame, outstanding, error, clientsCreated, requests>>

\* line 157
main_print ==
    /\ pc = "main_print"
    /\ printed' = returned
    /\ pc' = "done"
    /\ UNCHANGED <<inputs, entries, organized, results, idx, returned, rated,
                   frame, outstanding, error, clientsCreated, requests>>

(***************************************************************************)
(* The command line run and the direct call of rate_all_texts              *)
(***************************************************************************)
Init ==
    /\ OpenAI \in {None, SDK}
    /\ env \in Envs
    /\ runtime \in {"cloud", "local"}
    /\ lang \in {"en", "nl"}
    /\ entries = <<>> /\ results = <<>> /\ idx = 0
    /\ text = "" /\ client = None /\ prompts = None /\ response = None
    /\ content = None /\ rating = 0 /\ predicted = 0
    /\ outstanding = 0 /\ error = NoError /\ returned = None /\ printed = None
    /\ clientsCreated = 0 /\ requests = 0 /\ rated = <<>>
    /\ \/ /\ entry = "main"
          /\ pc = "main"
          /\ file \in {None} \cup {Some(d) : d \in Datasets}
          /\ organized = <<>>
       \/ /\ entry = "rate_all_texts"
          /\ pc = "rate_all_texts"
          /\ file = None
          /\ organized \in {organize_sentiments_by_score(d) : d \in Datasets}

Next ==
    \/ main_organize
    \/ main_guard
    \/ rate_all_texts_begin
    \/ loop
    \/ rate_configure
    \/ rate_build_prompts
    \/ rate_send
    \/ rate_receive(BatchReplies)
    \/ rate_parse
    \/ store
    \/ main_print

Spec == Init /\ [][Next]_vars

(***************************************************************************)
(* One call of rate_sentiment_with_openai_api                              *)
(***************************************************************************)
InitRater ==
    /\ entry = "rate_sentiment_with_openai_api"
    /\ OpenAI \in {None, SDK}
    /\ env \in KeyEnvs
    /\ runtime \in {"cloud", "local"}
    /\ lang = "en"
    /\ file = None
    /\ entries = <<>> /\ organized = <<>> /\ results = <<>> /\ idx = 0
    /\ text = "A" /\ client = None /\ prompts = None /\ response = None
    /\ content = None /\ rating = 0 /\ predicted = 0
    /\ outstanding = 0 /\ error = NoError /\ returned = None /\ printed = None
    /\ clientsCreated = 0 /\ requests = 0 /\ rated = <<>>
    /\ pc = "rate_configure"

NextRater ==
    \/ rate_configure
    \/ rate_build_prompts
    \/ rate_send
    \/ rate_receive(RaterReplies)
    \/ rate_parse

SpecRater == InitRater /\ [][NextRater]_vars

(***************************************************************************)
(* One call of organize_sentiments_by_score                                *)
(***************************************************************************)
GroupScores == {1, 4, 7}
GroupEntries == [sentiment : GroupScores,
                 heading : {"Very positive", "Very negative"},
                 text : Texts]
GroupInputs == UNION {[1..k -> GroupEntries] : k \in 0..MaxGroupEntries}

organize_call ==
    /\ pc = "organize"
    /\ organized' = organize_sentiments_by_score(entries)
    /\ pc' = "done"
    /\ UNCHANGED <<inputs, entries, results, idx, returned, printed, rated,
                   frame, outstanding, error, clientsCreated, requests>>

InitGrouper ==
    /\ entry = "organize_sentiments_by_score"
    /\ OpenAI = SDK /\ env \in {e \in KeyEnvs : e["OPENAI_API_KEY"] = None}
    /\ runtime = "cloud" /\ lang = "en" /\ file = None
    /\ entries \in GroupInputs
    /\ organized = <<>> /\ results = <<>> /\ idx = 0
    /\ text = "" /\ client = None /\ prompts = None /\ response = None
    /\ content = None /\ rating = 0 /\ predicted = 0
    /\ outstanding = 0 /\ error = NoError /\ returned = None /\ printed = None
    /\ clientsCreated = 0 /\ requests = 0 /\ rated = <<>>
    /\ pc = "organize"

NextGrouper == organize_call

SpecGrouper == InitGrouper /\ [][NextGrouper]_vars

(***************************************************************************)
(* One call of build_prompts                                               *)
(***************************************************************************)
TextAlphabet == {"a", "{", "]"}
PromptTexts == UNION {[1..k -> TextAlphabet] : k \in 0..MaxTextLen}
Langs == {"nl", "en", "NL", "fr", "", "nl "}

build_prompts_call ==
    /\ pc = "build_prompts"
    /\ prompts' = Some(build_prompts(text, lang))
    /\ pc' = "done"
    /\ UNCHANGED <<inputs, batch, text, client, response, content, rating,
                   predicted, outstanding, requests, error, clientsCreated>>

InitPrompts ==
    /\ entry = "build_prompts"
    /\ OpenAI = SDK /\ env \in {e \in KeyEnvs : e["OPENAI_API_KEY"] = None}
    /\ runtime = "cloud" /\ file = None
    /\ lang \in Langs
    /\ text \in PromptTexts
    /\ entries = <<>> /\ organized = <<>> /\ results = <<>> /\ idx = 0
    /\ client = None /\ prompts = None /\ response = None
    /\ content = None /\ rating = 0 /\ predicted = 0
    /\ outstanding = 0 /\ error = NoError /\ returned = None /\ printed = None
    /\ clientsCreated = 0 /\ requests = 0 /\ rated = <<>>
    /\ pc = "build_prompts"

NextPrompts == build_prompts_call

SpecPrompts == InitPrompts /\ [][NextPrompts]_vars

(***************************************************************************)
(* Properties                                                              *)
(***************************************************************************)
RaterReturned == entry = "rate_sentiment_with_openai_api" /\ pc = "done"

\* the text the pattern is searched in: "" for a response without choices or
\* a first choice without content
Searched == IF response = None \/ Len(response[1].choices) = 0
               \/ response[1].choices[1] = None
            THEN <<>> ELSE response[1].choices[1][1]

\* s holds digits enclosed directly in brackets from position i to position j
Bracketed(s, i, j) ==
    /\ i + 1 < j
    /\ s[i] = "[" /\ s[j] = "]"
    /\ \A k \in (i + 1)..(j - 1) : s[k] \in {"0", "5"}

HasBracketed(s) == \E i \in 1..Len(s), j \in 1..Len(s) : Bracketed(s, i, j)

\* C1: whenever the rater returns normally its result is in 1..7 and is the
\* clamp of the parsed integer: 1 below 1, 7 above 7, the integer itself
\* otherwise; "[0]" gives 1 and "[5]" gives 5.
C1_ResultIsClampOfParsed ==
    RaterReturned =>
        /\ predicted \in 1..7
        /\ rating < 1 => predicted = 1
        /\ rating > 7 => predicted = 7
        /\ rating \in 1..7 => predicted = rating
        /\ Searched = <<"[", "0", "]">> => predicted = 1
        /\ Searched = <<"[", "5", "]">> => predicted = 5
        /\ Searched = <<"[", "5", "0", "]">> => predicted = 7

C1_Witness ==
    /\ RaterReturned
    /\ Searched = <<"[", "5", "0", "]">>
    /\ rating = 50 /\ predicted = 7

\* C2: the parsed integer is the value of the leftmost run of digits enclosed
\* directly in brackets, wherever it sits; later bracketed numbers are ignored.
C2_FirstBracketedNumber ==
    RaterReturned =>
        \E i \in 1..Len(Searched), j \in 1..Len(Searched) :
            /\ Bracketed(Searched, i, j)
            /\ \A i2 \in 1..(i - 1), j2 \in 1..Len(Searched) :
                   ~Bracketed(Searched, i2, j2)
            /\ rating = int(SubSeq(Searched, i + 1, j - 1))

C2_Witness ==
    /\ RaterReturned
    /\ Searched = <<"[", "5", "]", "[", "0", "]">>
    /\ rating = 5

\* C3: a response text without a bracketed run of digits makes the rater
\* raise ValueError and return no rating, also when the response has no
\* choices or its first choice has no content.
C3_NoBracketedNumberRaises ==
    (entry = "rate_sentiment_with_openai_api" /\ response # None
       /\ pc # "rate_parse" /\ ~HasBracketed(Searched)) =>
        /\ pc = "raised"
        /\ error.type = "ValueError"
        /\ predicted = 0

C3_Witness ==
    /\ pc = "raised"
    /\ error = ParseFailed
    /\ response = Some(NoContent)
    /\ predicted = 0

\* C4: in rate_all_texts the first entry whose rating fails ends the batch:
\* the error propagates, no entry after it is rated and nothing is returned
\* or printed.
C4_FirstFailureEndsBatch ==
    (error # NoError /\ idx >= 1) =>
        /\ pc = "raised"
        /\ returned = None /\ printed = None
        /\ Len(rated) = idx /\ requests <= idx /\ outstanding = 0
        /\ Len(results) = idx - 1
        /\ \A i \in 1..idx : rated[i].score = organized[i].score

C4_Witness ==
    /\ pc = "raised" /\ error = ParseFailed
    /\ idx = 1 /\ Len(organized) = 2
    /\ requests = 1 /\ returned = None

\* C5: when no entry fails, rate_all_texts calls the rater exactly once per
\* key in mapping order, never with two requests outstanding, and returns a
\* mapping with the same key set, each key mapped to the rating obtained for
\* that key's text.
C5_OncePerKeyInOrder ==
    /\ outstanding \in {0, 1}
    /\ Len(rated) = idx
    /\ \A i \in 1..Len(rated) :
           /\ rated[i].score = organized[i].score
           /\ rated[i].text = organized[i].text
    /\ returned # None =>
           /\ Len(rated) = Len(organized)
           /\ requests = Len(organized)
           /\ Len(returned[1]) = Len(organized)
           /\ \A i \in 1..Len(organized) :
                  /\ rated[i].predicted \in 1..7
                  /\ \E j \in 1..Len(returned[1]) :
                         /\ returned[1][j].score = organized[i].score
                         /\ returned[1][j].predicted = rated[i].predicted

C5_Witness ==
    /\ returned # None /\ Len(organized) = 2
    /\ organized[1].score = 7
    /\ returned[1][1] = [score |-> 7, predicted |-> 1]
    /\ returned[1][2] = [score |-> 1, predicted |-> 7]

\* the last entry of es with score sc
LastWith(es, sc) ==
    es[CHOOSE i \in 1..Len(es) :
          /\ es[i].sentiment = sc
          /\ \A k \in (i + 1)..Len(es) : es[k].sentiment # sc]

\* C6: organize_sentiments_by_score is last-write-wins: every score of the
\* list maps to the heading and text of the last entry with that score, the
\* map has no other key, and the input list is not modified.
C6_LastWriteWins ==
    /\ [](pc = "done" =>
            /\ \A i \in 1..Len(entries) :
                   \E j \in 1..Len(organized) :
                       /\ organized[j].score = entries[i].sentiment
                       /\ organized[j].heading = LastWith(entries, entries[i].sentiment).heading
                       /\ organized[j].text = LastWith(entries, entries[i].sentiment).text
            /\ \A j \in 1..Len(organized) :
                   /\ \E i \in 1..Len(entries) : entries[i].sentiment = organized[j].score
                   /\ \A k \in 1..Len(organized) :
                          organized[k].score = organized[j].score => k = j)
    /\ [][entries' = entries]_vars

C6_Witness ==
    /\ pc = "done" /\ Len(entries) = 3 /\ Len(organized) = 2
    /\ entries[1].sentiment = entries[3].sentiment
    /\ entries[1].text # entries[3].text
    /\ entries[1].heading # entries[3].heading
    /\ organized[1].text = entries[3].text

MainSucceeded == entry = "main" /\ pc = "done"

\* C7 as stated: a successful run prints the report whenever an API key is
\* available or the local runtime is selected, and prints nothing otherwise.
C7_PrintsIffKeyOrLocal ==
    MainSucceeded =>
        (printed # None <=> (EnvTruthy(env, "OPENAI_API_KEY") \/ runtime = "local"))

\* C7 amended: a successful run prints the report whenever the OpenAI SDK
\* could be imported and an API key is available or the local runtime is
\* selected, and prints nothing otherwise; the report is the mapping
\* rate_all_texts returned.
C7_PrintsIffSdkAndKeyOrLocal ==
    MainSucceeded =>
        /\ printed # None <=>
               (OpenAI # None /\ (EnvTruthy(env, "OPENAI_API_KEY") \/ runtime = "local"))
        /\ printed = returned

C7_Witness ==
    /\ MainSucceeded
    /\ runtime = "local" /\ env["OPENAI_API_KEY"] = None
    /\ printed # None /\ Len(printed[1]) = 2

\* C8: with runtime "cloud" and no API key (unset or empty) the rater fails
\* with a configuration error before any prompt is built or any request is
\* sent; with runtime "local" the absence of every key variable is no error
\* and the default key is used.
C8_CloudNeedsKeyLocalDoesNot ==
    /\ (runtime = "cloud" /\ ~EnvTruthy(env, "OPENAI_API_KEY")
          /\ Len(rated) >= 1 /\ pc # "rate_configure") =>
           /\ pc = "raised"
           /\ error.type = "RuntimeError"
           /\ prompts = None /\ client = None
           /\ requests = 0 /\ clientsCreated = 0
    /\ runtime = "local" => error # KeyMissing
    /\ (runtime = "local" /\ OpenAI # None) => error.type # "RuntimeError"
    /\ (runtime = "local" /\ env["OPENAI_API_KEY"] = None
          /\ env["LOCAL_OPENAI_API_KEY"] = None /\ OpenAI # None
          /\ pc \in {"rate_build_prompts", "rate_send", "rate_receive",
                     "rate_parse", "store"}) =>
           /\ client # None
           /\ client[1].api_key = "sk-local"

C8_Witness ==
    /\ pc = "raised" /\ error = KeyMissing
    /\ runtime = "cloud" /\ env["OPENAI_API_KEY"] = Some("")
    /\ requests = 0 /\ prompts = None

\* C9: build_prompts never fails and selects between exactly two templates:
\* every language tag other than "nl" gets the pair "en" gets, with the text
\* interpolated verbatim.
C9_TwoTemplates ==
    (entry = "build_prompts" /\ pc = "done") =>
        /\ prompts # None
        /\ lang = "nl" => prompts[1] = <<NlSystem, <<NlUserHead, text, NlUserTail>>>>
        /\ lang # "nl" => prompts[1] = <<EnSystem, <<EnUserHead, text, EnUserTail>>>>

C9_Witness ==
    /\ entry = "build_prompts" /\ pc = "done"
    /\ lang = "fr" /\ text = <<"{", "]">>
    /\ prompts = Some(<<EnSystem, <<EnUserHead, text, EnUserTail>>>>)

\* C10 as stated: within one invocation of the batch rater the connection
\* object is created once and reused for every completion call.
C10_OneClientPerBatch == clientsCreated <= 1

\* C10 amended: within one invocation of the batch rater every call of the
\* rater that passes the configuration checks creates its own connection
\* object and sends its one completion request through it, so the number of
\* connection objects created equals the number of completion requests.
C10_OneClientPerCall ==
    /\ pc \in {"rate_build_prompts", "rate_send"} => clientsCreated = requests + 1
    /\ pc \notin {"rate_build_prompts", "rate_send"} => clientsCreated = requests
    /\ returned # None => clientsCreated = Len(organized)

C10_Witness ==
    /\ returned # None /\ error = NoError
    /\ Len(organized) = 2 /\ requests = 2 /\ clientsCreated = 2

====
